---- MODULE Spec2Model ----
(***************************************************************************)
(* The todo-list view of src/App.tsx: one React component holding the      *)
(* input text, bound to the getTodos query and to the addTodo, deleteTodo  *)
(* and toggleTodo mutations of a GraphQL client.  Requests and responses   *)
(* travel independently over the network, the backend answers each request *)
(* from its table, and the client handles responses one at a time on the   *)
(* UI event loop.                                                          *)
(***************************************************************************)
EXTENDS Naturals, Sequences, FiniteSets, Bags, TLC

\* Bounds of the model.
MaxLen == 1        \* longest text typed into the input
MaxRequests == 2   \* mutations the user asks for in one run

VARIABLES
  todoText,    \* React state of the input (a sequence of characters)
  data,        \* useQuery data: [defined, todos], the cached getTodos result
  loading,     \* useQuery loading
  error,       \* useQuery error
  db,          \* the backend's todos table, in insertion order
  nextId,      \* the next id the backend assigns
  network,     \* bag of requests and responses in flight
  lastEvent,   \* the handler or callback that ran last, with what it saw
  deletedLog,  \* ids for which 'Deleted todo' was logged
  requested    \* number of mutations asked for so far

vars == <<todoText, data, loading, error, db, nextId, network, lastEvent, deletedLog, requested>>

-----------------------------------------------------------------------------
\* Strings are sequences of characters; " " is whitespace, "a" is not.
Chars == {" ", "a"}

Texts == UNION {[1..n -> Chars] : n \in 0..MaxLen}

IsWhitespace(c) == c = " "

RECURSIVE TrimStart(_)
TrimStart(s) ==
  IF s = <<>> THEN s
  ELSE IF IsWhitespace(Head(s)) THEN TrimStart(Tail(s)) ELSE s

RECURSIVE TrimEnd(_)
TrimEnd(s) ==
  IF s = <<>> THEN s
  ELSE IF IsWhitespace(s[Len(s)]) THEN TrimEnd(SubSeq(s, 1, Len(s) - 1)) ELSE s

\* String.prototype.trim
Trim(s) == TrimEnd(TrimStart(s))

\* JavaScript's !s for a string s
Falsy(s) == Len(s) = 0

\* interface Todo
Todo(id, done, text) == [id |-> id, done |-> done, text |-> text]

Ids(s) == {s[i].id : i \in 1..Len(s)}

-----------------------------------------------------------------------------
\* Messages.  Every message has the same fields; the ones an operation does
\* not use keep their defaults.
Message(op, stage, watch, id, done, text, ok, rows) ==
  [op |-> op, stage |-> stage, watch |-> watch, id |-> id, done |-> done,
   text |-> text, ok |-> ok, rows |-> rows]

\* query getTodos; watch is TRUE for the fetch of useQuery, FALSE for a refetch
GetTodosRequest(watch) == Message("getTodos", "request", watch, 0, FALSE, <<>>, TRUE, <<>>)

\* mutation addTodo($text)
AddTodoRequest(text) == Message("addTodo", "request", FALSE, 0, FALSE, text, TRUE, <<>>)

\* mutation deleteTodo($id)
DeleteTodoRequest(id) == Message("deleteTodo", "request", FALSE, id, FALSE, <<>>, TRUE, <<>>)

\* mutation toggleTodo($id, $done)
ToggleTodoRequest(id, done) == Message("toggleTodo", "request", FALSE, id, done, <<>>, TRUE, <<>>)

Response(m, ok, rows) == [m EXCEPT !.stage = "response", !.ok = ok, !.rows = rows]

Requests == {m \in BagToSet(network) : m.stage = "request"}
Responses == {m \in BagToSet(network) : m.stage = "response"}

Send(m) == network (+) SetToBag({m})
Receive(m) == network (-) SetToBag({m})
Reply(m, r) == (network (-) SetToBag({m})) (+) SetToBag({r})

Event(type, op, id, flag, text) ==
  [type |-> type, op |-> op, id |-> id, flag |-> flag, text |-> text]

-----------------------------------------------------------------------------
\* What the component renders: the error message, the loading message, or
\* the form and one row per cached todo.
Rows == IF data.defined THEN data.todos ELSE <<>>

\* Variant: the loading test comes before the error test.
View_LoadingFirst ==
  IF loading THEN [kind |-> "loading", form |-> FALSE, rows |-> <<>>]
  ELSE IF error THEN [kind |-> "error", form |-> FALSE, rows |-> <<>>]
  ELSE [kind |-> "list", form |-> TRUE, rows |-> Rows]

\* Variant: an empty result is taken for a failed fetch.
View_EmptyIsError ==
  IF error \/ Rows = <<>> THEN [kind |-> "error", form |-> FALSE, rows |-> <<>>]
  ELSE IF loading THEN [kind |-> "loading", form |-> FALSE, rows |-> <<>>]
  ELSE [kind |-> "list", form |-> TRUE, rows |-> Rows]

View ==
  IF error THEN [kind |-> "error", form |-> FALSE, rows |-> <<>>]
  ELSE IF loading THEN [kind |-> "loading", form |-> FALSE, rows |-> <<>>]
  ELSE [kind |-> "list", form |-> TRUE, rows |-> Rows]

RenderedTodos == {View.rows[i] : i \in 1..Len(View.rows)}

-----------------------------------------------------------------------------
\* The state after the first render: the input is empty and the getTodos
\* query is on its way.  The backend's table may already hold a todo.
InitialTables == {<<>>, <<Todo(1, FALSE, <<"a">>)>>}

Init ==
  /\ todoText = <<>>
  /\ data = [defined |-> FALSE, todos |-> <<>>]
  /\ loading = TRUE
  /\ error = FALSE
  /\ db \in InitialTables
  /\ nextId = Len(db) + 1
  /\ network = SetToBag({GetTodosRequest(TRUE)})
  /\ lastEvent = Event("init", "", 0, FALSE, <<>>)
  /\ deletedLog = {}
  /\ requested = 0

-----------------------------------------------------------------------------
\* The user's gestures.  The form and the rows exist only in the list view.

\* onChange of the input: setTodoText(event.target.value)
ChangeText(value) ==
  /\ View.form
  /\ value # todoText
  /\ todoText' = value
  /\ lastEvent' = Event("change", "", 0, FALSE, value)
  /\ UNCHANGED <<data, loading, error, db, nextId, network, deletedLog, requested>>

\* Variant: the text is tested without trimming it.
HandleAddTodo_NoTrim ==
  /\ View.form
  /\ lastEvent' = Event("submit", "addTodo", 0, FALSE, todoText)
  /\ IF Falsy(todoText)
       THEN UNCHANGED <<network, requested>>
       ELSE /\ requested < MaxRequests
            /\ network' = Send(AddTodoRequest(todoText))
            /\ requested' = requested + 1
  /\ UNCHANGED <<todoText, data, loading, error, db, nextId, deletedLog>>

\* Variant: a submit while an addTodo is pending is ignored.
HandleAddTodo_Guarded ==
  /\ View.form
  /\ lastEvent' = Event("submit", "addTodo", 0, FALSE, todoText)
  /\ IF Falsy(Trim(todoText)) \/ \E m \in BagToSet(network) : m.op = "addTodo"
       THEN UNCHANGED <<network, requested>>
       ELSE /\ requested < MaxRequests
            /\ network' = Send(AddTodoRequest(todoText))
            /\ requested' = requested + 1
  /\ UNCHANGED <<todoText, data, loading, error, db, nextId, deletedLog>>

\* onSubmit of the form
HandleAddTodo ==
  /\ View.form
  /\ lastEvent' = Event("submit", "addTodo", 0, FALSE, todoText)
  /\ IF Falsy(Trim(todoText))
       THEN UNCHANGED <<network, requested>>
       ELSE /\ requested < MaxRequests
            /\ network' = Send(AddTodoRequest(todoText))
            /\ requested' = requested + 1
  /\ UNCHANGED <<todoText, data, loading, error, db, nextId, deletedLog>>

\* Variant: the answer to window.confirm is not looked at.
HandleDeleteTodo_NoConfirm(todo, confirmation) ==
  /\ todo \in RenderedTodos
  /\ lastEvent' = Event("delete", "deleteTodo", todo.id, confirmation, <<>>)
  /\ requested < MaxRequests
  /\ network' = Send(DeleteTodoRequest(todo.id))
  /\ requested' = requested + 1
  /\ UNCHANGED <<todoText, data, loading, error, db, nextId, deletedLog>>

\* onClick of a row's button; confirmation is the answer to window.confirm
HandleDeleteTodo(todo, confirmation) ==
  /\ todo \in RenderedTodos
  /\ lastEvent' = Event("delete", "deleteTodo", todo.id, confirmation, <<>>)
  /\ IF confirmation
       THEN /\ requested < MaxRequests
            /\ network' = Send(DeleteTodoRequest(todo.id))
            /\ requested' = requested + 1
       ELSE UNCHANGED <<network, requested>>
  /\ UNCHANGED <<todoText, data, loading, error, db, nextId, deletedLog>>

\* Variant: the request carries done, not !done.
HandleToggleTodo_SameDone(todo) ==
  /\ todo \in RenderedTodos
  /\ requested < MaxRequests
  /\ lastEvent' = Event("toggle", "toggleTodo", todo.id, todo.done, <<>>)
  /\ network' = Send(ToggleTodoRequest(todo.id, todo.done))
  /\ requested' = requested + 1
  /\ UNCHANGED <<todoText, data, loading, error, db, nextId, deletedLog>>

\* onDoubleClick of a row
HandleToggleTodo(todo) ==
  /\ todo \in RenderedTodos
  /\ requested < MaxRequests
  /\ lastEvent' = Event("toggle", "toggleTodo", todo.id, todo.done, <<>>)
  /\ network' = Send(ToggleTodoRequest(todo.id, ~todo.done))
  /\ requested' = requested + 1
  /\ UNCHANGED <<todoText, data, loading, error, db, nextId, deletedLog>>

-----------------------------------------------------------------------------
\* The backend answers one request from its table.

BackendEvent(m) == Event("backend", "", 0, FALSE, <<>>)

BackendGetTodos(m) ==
  /\ m \in Requests /\ m.op = "getTodos"
  /\ network' = Reply(m, Response(m, TRUE, db))
  /\ lastEvent' = BackendEvent(m)
  /\ UNCHANGED <<todoText, data, loading, error, db, nextId, deletedLog, requested>>

\* insert_todos(objects: {text: $text}) { returning }
BackendAddTodo(m) ==
  /\ m \in Requests /\ m.op = "addTodo"
  /\ LET row == Todo(nextId, FALSE, m.text) IN
       /\ db' = Append(db, row)
       /\ network' = Reply(m, Response(m, TRUE, <<row>>))
  /\ nextId' = nextId + 1
  /\ lastEvent' = BackendEvent(m)
  /\ UNCHANGED <<todoText, data, loading, error, deletedLog, requested>>

\* delete_todos(where: {id: {_eq: $id}}) { returning }
BackendDeleteTodo(m) ==
  /\ m \in Requests /\ m.op = "deleteTodo"
  /\ db' = SelectSeq(db, LAMBDA t : t.id # m.id)
  /\ network' = Reply(m, Response(m, TRUE, SelectSeq(db, LAMBDA t : t.id = m.id)))
  /\ lastEvent' = BackendEvent(m)
  /\ UNCHANGED <<todoText, data, loading, error, nextId, deletedLog, requested>>

\* update_todos(where: {id: {_eq: $id}}, _set: {done: $done}) { returning }
BackendToggleTodo(m) ==
  /\ m \in Requests /\ m.op = "toggleTodo"
  /\ db' = [i \in 1..Len(db) |->
              IF db[i].id = m.id THEN [db[i] EXCEPT !.done = m.done] ELSE db[i]]
  /\ network' = Reply(m, Response(m, TRUE, SelectSeq(db', LAMBDA t : t.id = m.id)))
  /\ lastEvent' = BackendEvent(m)
  /\ UNCHANGED <<todoText, data, loading, error, nextId, deletedLog, requested>>

\* The request fails (network or backend error): nothing is stored.
BackendFail(m) ==
  /\ m \in Requests
  /\ network' = Reply(m, Response(m, FALSE, <<>>))
  /\ lastEvent' = BackendEvent(m)
  /\ UNCHANGED <<todoText, data, loading, error, db, nextId, deletedLog, requested>>

-----------------------------------------------------------------------------
\* The client handles one response.

\* The cache is normalised by id: the rows a mutation returns overwrite the
\* cached todos with the same id and add no row to the getTodos result.
WriteRows(todos, rows) ==
  [i \in 1..Len(todos) |->
     IF \E j \in 1..Len(rows) : rows[j].id = todos[i].id
       THEN rows[CHOOSE j \in 1..Len(rows) : rows[j].id = todos[i].id]
       ELSE todos[i]]

\* useQuery(GET_TODOS): the fetch resolves
QueryResult(m) ==
  /\ m \in Responses /\ m.op = "getTodos" /\ m.watch /\ m.ok
  /\ data' = [defined |-> TRUE, todos |-> m.rows]
  /\ loading' = FALSE
  /\ network' = Receive(m)
  /\ lastEvent' = Event("completed", "getTodos", 0, TRUE, <<>>)
  /\ UNCHANGED <<todoText, error, db, nextId, deletedLog, requested>>

\* useQuery(GET_TODOS): the fetch fails
QueryError(m) ==
  /\ m \in Responses /\ m.op = "getTodos" /\ m.watch /\ ~m.ok
  /\ error' = TRUE
  /\ loading' = FALSE
  /\ network' = Receive(m)
  /\ lastEvent' = Event("failed", "getTodos", 0, TRUE, <<>>)
  /\ UNCHANGED <<todoText, data, db, nextId, deletedLog, requested>>

\* refetchQueries: [{query: GET_TODOS}] resolves: the result replaces the
\* cached one
RefetchResult(m) ==
  /\ m \in Responses /\ m.op = "getTodos" /\ ~m.watch /\ m.ok
  /\ data' = [defined |-> TRUE, todos |-> m.rows]
  /\ network' = Receive(m)
  /\ lastEvent' = Event("completed", "getTodos", 0, FALSE, <<>>)
  /\ UNCHANGED <<todoText, loading, error, db, nextId, deletedLog, requested>>

\* the refetch fails: it is a query of its own, the watched one keeps its
\* result
RefetchError(m) ==
  /\ m \in Responses /\ m.op = "getTodos" /\ ~m.watch /\ ~m.ok
  /\ network' = Receive(m)
  /\ lastEvent' = Event("failed", "getTodos", 0, FALSE, <<>>)
  /\ UNCHANGED <<todoText, data, loading, error, db, nextId, deletedLog, requested>>

\* Variant: no refetchQueries.
AddTodoCompleted_NoRefetch(m) ==
  /\ m \in Responses /\ m.op = "addTodo" /\ m.ok
  /\ data' = [data EXCEPT !.todos = WriteRows(@, m.rows)]
  /\ network' = Receive(m)
  /\ todoText' = <<>>
  /\ lastEvent' = Event("completed", "addTodo", 0, FALSE, todoText)
  /\ UNCHANGED <<loading, error, db, nextId, deletedLog, requested>>

\* Variant: onCompleted clears the input only if it still holds the text sent.
AddTodoCompleted_KeepTyped(m) ==
  /\ m \in Responses /\ m.op = "addTodo" /\ m.ok
  /\ data' = [data EXCEPT !.todos = WriteRows(@, m.rows)]
  /\ network' = Reply(m, GetTodosRequest(FALSE))
  /\ todoText' = IF todoText = m.text THEN <<>> ELSE todoText
  /\ lastEvent' = Event("completed", "addTodo", 0, FALSE, todoText)
  /\ UNCHANGED <<loading, error, db, nextId, deletedLog, requested>>

\* addTodo resolves: the refetch of refetchQueries goes out, then
\* onCompleted clears the input
AddTodoCompleted(m) ==
  /\ m \in Responses /\ m.op = "addTodo" /\ m.ok
  /\ data' = [data EXCEPT !.todos = WriteRows(@, m.rows)]
  /\ network' = Reply(m, GetTodosRequest(FALSE))
  /\ todoText' = <<>>
  /\ lastEvent' = Event("completed", "addTodo", 0, FALSE, todoText)
  /\ UNCHANGED <<loading, error, db, nextId, deletedLog, requested>>

\* deleteTodo resolves: update filters the todo out of the cached result
DeleteTodoCompleted(m) ==
  /\ m \in Responses /\ m.op = "deleteTodo" /\ m.ok
  /\ LET prevData == [data EXCEPT !.todos = WriteRows(@, m.rows)]
         newTodos == SelectSeq(prevData.todos, LAMBDA todo : todo.id # m.id)
     IN  data' = [prevData EXCEPT !.todos = newTodos]
  /\ network' = Receive(m)
  /\ deletedLog' = deletedLog \cup {m.id}
  /\ lastEvent' = Event("completed", "deleteTodo", m.id, FALSE, <<>>)
  /\ UNCHANGED <<todoText, loading, error, db, nextId, requested>>

\* toggleTodo resolves: the returned rows reach the cache
ToggleTodoCompleted(m) ==
  /\ m \in Responses /\ m.op = "toggleTodo" /\ m.ok
  /\ data' = [data EXCEPT !.todos = WriteRows(@, m.rows)]
  /\ network' = Receive(m)
  /\ lastEvent' = Event("completed", "toggleTodo", m.id, m.done, <<>>)
  /\ UNCHANGED <<todoText, loading, error, db, nextId, deletedLog, requested>>

\* Variant: onCompleted runs for a failed mutation too.
MutationError_Completes(m) ==
  /\ m \in Responses /\ m.op \in {"addTodo", "deleteTodo", "toggleTodo"} /\ ~m.ok
  /\ network' = Receive(m)
  /\ todoText' = IF m.op = "addTodo" THEN <<>> ELSE todoText
  /\ lastEvent' = Event("failed", m.op, m.id, m.done, m.text)
  /\ UNCHANGED <<data, loading, error, db, nextId, deletedLog, requested>>

\* a mutation fails: its promise rejects; no onCompleted, no update, no
\* refetch, and no handler catches the rejection
MutationError(m) ==
  /\ m \in Responses /\ m.op \in {"addTodo", "deleteTodo", "toggleTodo"} /\ ~m.ok
  /\ network' = Receive(m)
  /\ lastEvent' = Event("failed", m.op, m.id, m.done, m.text)
  /\ UNCHANGED <<todoText, data, loading, error, db, nextId, deletedLog, requested>>

-----------------------------------------------------------------------------
Messages == BagToSet(network)

Next ==
  \/ \E value \in Texts : ChangeText(value)
  \/ HandleAddTodo
  \/ \E todo \in RenderedTodos, confirmation \in BOOLEAN : HandleDeleteTodo(todo, confirmation)
  \/ \E todo \in RenderedTodos : HandleToggleTodo(todo)
  \/ \E m \in Messages : BackendGetTodos(m)
  \/ \E m \in Messages : BackendAddTodo(m)
  \/ \E m \in Messages : BackendDeleteTodo(m)
  \/ \E m \in Messages : BackendToggleTodo(m)
  \/ \E m \in Messages : BackendFail(m)
  \/ \E m \in Messages : QueryResult(m)
  \/ \E m \in Messages : QueryError(m)
  \/ \E m \in Messages : RefetchResult(m)
  \/ \E m \in Messages : RefetchError(m)
  \/ \E m \in Messages : AddTodoCompleted(m)
  \/ \E m \in Messages : DeleteTodoCompleted(m)
  \/ \E m \in Messages : ToggleTodoCompleted(m)
  \/ \E m \in Messages : MutationError(m)

Spec == Init /\ [][Next]_vars

-----------------------------------------------------------------------------
\* The render function on every result useQuery can hand to the component:
\* any combination of data, loading and error, with any input text.
SampleText == <<"a">>

\* the table holds at most its first row and one row per addTodo
MaxRows == MaxRequests + 1

TodoLists ==
  {s \in UNION {[1..n -> [id : 1..MaxRows, done : BOOLEAN, text : {SampleText}]] : n \in 0..MaxRows} :
     \A i, j \in 1..Len(s) : s[i].id = s[j].id => i = j}

QueryData ==
  {[defined |-> FALSE, todos |-> <<>>]} \cup {[defined |-> TRUE, todos |-> s] : s \in TodoLists}

RenderInit ==
  /\ todoText \in Texts
  /\ data \in QueryData
  /\ loading \in BOOLEAN
  /\ error \in BOOLEAN
  /\ db = <<>>
  /\ nextId = 1
  /\ network = EmptyBag
  /\ lastEvent = Event("init", "", 0, FALSE, <<>>)
  /\ deletedLog = {}
  /\ requested = 0

\* useQuery hands the component another result and it renders again
UseQueryResult(d, l, e) ==
  /\ data' = d
  /\ loading' = l
  /\ error' = e
  /\ lastEvent' = Event("render", "getTodos", 0, FALSE, <<>>)
  /\ UNCHANGED <<todoText, db, nextId, network, deletedLog, requested>>

RenderNext ==
  \/ \E d \in QueryData, l \in BOOLEAN, e \in BOOLEAN : UseQueryResult(d, l, e)
  \/ \E value \in Texts : ChangeText(value)

RenderSpec == RenderInit /\ [][RenderNext]_vars

-----------------------------------------------------------------------------
\* Properties.

Mutations == {"addTodo", "deleteTodo", "toggleTodo"}

WhitespaceOnly(s) == \A i \in 1..Len(s) : s[i] = " "

\* m is put on the network by the step
Issued(m) == CopiesIn(m, network') > CopiesIn(m, network)

\* the step puts no message on the network
NothingIssued == \A m \in BagToSet(network') : ~Issued(m)

\* m is taken off the network by the step
Taken(m) == CopiesIn(m, network') < CopiesIn(m, network)

\* C1: a submit while the input is empty or whitespace-only issues no
\* request and leaves the input and the cached list as they are; and no
\* addTodo message is ever in flight with an empty or whitespace-only text.
C1_BlankSubmitIsNoOp ==
  /\ [](\A m \in Messages : m.op = "addTodo" => (m.text # <<>> /\ ~WhitespaceOnly(m.text)))
  /\ [][(lastEvent'.type = "submit" /\ WhitespaceOnly(todoText))
          => UNCHANGED <<network, todoText, data>>]_vars

C1_Witness ==
  /\ lastEvent.type = "submit"
  /\ lastEvent.text = <<" ">>
  /\ todoText = <<" ">>
  /\ \A m \in Messages : m.op # "addTodo"

\* C2: once 'Deleted todo' was logged for id X, the cached list holds no
\* todo with id X.
C2_DeletedStaysOut == \A x \in deletedLog : x \notin Ids(Rows)

\* C3: the step that completes an addTodo clears the input and puts one
\* getTodos refetch on the network; the step that resolves a refetch leaves
\* the cached list equal to the rows its response carried.
C3_CreateClearsAndRefetches ==
  [][/\ (lastEvent'.type = "completed" /\ lastEvent'.op = "addTodo")
          => /\ todoText' = <<>>
             /\ CopiesIn(GetTodosRequest(FALSE), network')
                  = CopiesIn(GetTodosRequest(FALSE), network) + 1
     /\ \A m \in Responses :
          (m.op = "getTodos" /\ ~m.watch /\ m.ok /\ Taken(m))
            => (data'.defined /\ data'.todos = m.rows)]_vars

C3_Witness ==
  /\ lastEvent = Event("completed", "getTodos", 0, FALSE, <<>>)
  /\ todoText = <<>>
  /\ Len(Rows) = 2
  /\ Rows = db

\* C4: a toggle gesture on a rendered row issues exactly one message, the
\* toggleTodo request with the row's id and the negation of the row's done.
C4_ToggleRequestsNegation ==
  [][lastEvent'.type = "toggle"
       => \E todo \in RenderedTodos :
            /\ todo.id = lastEvent'.id
            /\ todo.done = lastEvent'.flag
            /\ network' = Send(ToggleTodoRequest(todo.id, ~todo.done))]_vars

C4_Witness ==
  /\ lastEvent.type = "toggle"
  /\ ~lastEvent.flag
  /\ BagIn(ToggleTodoRequest(lastEvent.id, TRUE), network)
  /\ BagCardinality(network) = 1

\* C5: whenever the query has an error the view is the error message, with
\* no rows and no form, whatever loading and the cached data are.
C5_ErrorShowsOnlyMessage ==
  error => (View.kind = "error" /\ View.rows = <<>> /\ ~View.form)

C5_Witness ==
  /\ error
  /\ loading
  /\ data.defined
  /\ Len(data.todos) > 0
  /\ View.kind = "error"

\* C6: when the query is neither loading nor failed the view is the list,
\* its rows are the cached todos in order, no two rows share a key, and an
\* empty cached list gives an empty list view, not the error view.
C6_ListShowsCachedTodos ==
  (~loading /\ ~error)
    => /\ View.kind = "list"
       /\ View.form
       /\ data.defined
       /\ View.rows = data.todos
       /\ Cardinality(Ids(View.rows)) = Len(View.rows)
       /\ (data.todos = <<>> => (View.rows = <<>> /\ View.kind # "error"))

C6_Witness ==
  /\ ~loading
  /\ ~error
  /\ data.defined
  /\ data.todos = <<>>
  /\ View.kind = "list"

\* C7: a declined confirmation issues no request and leaves the cached list
\* and the input as they are; a deleteTodo request is put on the network
\* only by the delete handler of that id with the confirmation accepted.
C7_DeleteNeedsConfirmation ==
  [][/\ (lastEvent'.type = "delete" /\ ~lastEvent'.flag)
          => UNCHANGED <<network, data, todoText>>
     /\ \A m \in BagToSet(network') :
          (m.op = "deleteTodo" /\ m.stage = "request" /\ Issued(m))
            => /\ lastEvent' = Event("delete", "deleteTodo", m.id, TRUE, <<>>)
               /\ m.id \in Ids(Rows)]_vars

C7_Witness ==
  /\ lastEvent.type = "delete"
  /\ ~lastEvent.flag
  /\ lastEvent.id \in Ids(Rows)
  /\ \A m \in Messages : m.op # "deleteTodo"

\* C8: the step that handles a failed mutation leaves the view, the query's
\* error and loading flags, the cached list and the input as they are and
\* puts no message on the network (no retry, no refetch).
C8_FailedMutationChangesNothing ==
  [][(lastEvent'.type = "failed" /\ lastEvent'.op \in Mutations)
       => /\ UNCHANGED <<data, loading, error, todoText>>
          /\ View' = View
          /\ NothingIssued]_vars

C8_Witness ==
  /\ lastEvent.type = "failed"
  /\ lastEvent.op = "addTodo"
  /\ todoText # <<>>
  /\ todoText = lastEvent.text
  /\ View.kind = "list"
  /\ \A m \in Messages : m.op # "getTodos"

\* The request a gesture asks for: addTodo of the input on a submit,
\* toggleTodo on a toggle, deleteTodo on an accepted delete.
GestureRequest(e) ==
  IF e.type = "submit" THEN AddTodoRequest(e.text)
  ELSE IF e.type = "toggle" THEN ToggleTodoRequest(e.id, ~e.flag)
  ELSE DeleteTodoRequest(e.id)

\* C9: a submit, a toggle or an accepted delete made while the very request
\* it asks for is already in flight puts one more copy of it on the network.
C9_PendingRequestDoesNotBlock ==
  [][\A m \in Requests :
       (/\ lastEvent'.type \in {"submit", "toggle", "delete"}
        /\ (lastEvent'.type = "delete" => lastEvent'.flag)
        /\ m = GestureRequest(lastEvent'))
         => CopiesIn(m, network') = CopiesIn(m, network) + 1]_vars

C9_Witness ==
  \E m \in Requests : m.op = "addTodo" /\ CopiesIn(m, network) = 2

\* C10: the step that completes an addTodo leaves the input empty whatever
\* it held; an addTodo request put on the network carries the input's text
\* of that moment, and the row the backend inserts carries the request's.
C10_CompletionDiscardsInput ==
  [][/\ (lastEvent'.type = "completed" /\ lastEvent'.op = "addTodo") => todoText' = <<>>
     /\ \A m \in BagToSet(network') :
          (m.op = "addTodo" /\ m.stage = "request" /\ Issued(m)) => m.text = todoText
     /\ Len(db') > Len(db)
          => \E m \in Requests :
               m.op = "addTodo" /\ Taken(m) /\ db'[Len(db')].text = m.text]_vars

C10_Witness ==
  /\ lastEvent.type = "completed"
  /\ lastEvent.op = "addTodo"
  /\ lastEvent.text # <<>>
  /\ todoText = <<>>
  /\ Len(db) = 2
  /\ \A i \in 1..Len(db) : db[i].text # lastEvent.text

====
